---- MODULE Spec2Model ----
(***************************************************************************)
(* Model of the backup store of scripts/safe-op.ts: backupFile, rollback,  *)
(* cleanOldBackups, listBackups and recordOperation, over a file system    *)
(* and a wall clock.                                                       *)
(*                                                                         *)
(* A path is a record [dir, name]: dir is the sequence of directory        *)
(* components and name the dot-separated segments of the last component,   *)
(* so /repo/.context/backups/a.txt.<ts>.bak is                             *)
(*   [dir |-> <<"repo", ".context", "backups">>,                           *)
(*    name |-> <<"a", "txt", <ts>, "bak">>].                               *)
(* The file system fs maps each existing path to its content and mtime.    *)
(***************************************************************************)
EXTENDS Integers, Sequences, FiniteSets, TLC

\* ------------------------------------------------------------------ bounds
\* Last reading of the clock, which counts seconds.
MaxTime == 1
\* Largest number of successful backup/restore operations in a behaviour.
MaxOps == 2
\* Largest retention count passed to clean or as maxBackups.
MaxKeep == 1

VARIABLES
  fs,              \* existing files: path -> [content, mtime]
  backupDirExists, \* BACKUP_DIR has been created
  logExists,       \* operations.jsonl exists
  log,             \* lines of operations.jsonl, in file order
  now,             \* wall clock, in seconds
  last,            \* the call made by the last step and its outcome
  performed,       \* the records of the successful backup/restore
                   \* operations so far, one per operation, in order
  made,            \* returned artifact path -> file and content of the
                   \* most recent backup that returned it
  cli,             \* the last command line run: its arguments, what it
                   \* printed and its exit code
  procs,           \* the invocations of backupFile and cleanOldBackups that
                   \* run concurrently: where each one is and its locals
  tui,             \* scripts/tui.ts: its state object, the child processes
                   \* it has spawned, its timers and what it rendered last
  web              \* ui/app.js: its state object, the simulated commands
                   \* and the check-all loops that are pending

vars ==
  <<fs, backupDirExists, logExists, log, now, last, performed, made, cli,
    procs, tui, web>>

\* what a step of the store leaves alone
others == <<procs, tui, web>>

\* ------------------------------------------------------------------- paths
Path(dir, name) == [dir |-> dir, name |-> name]

NoPath == Path(<<>>, <<>>)

ROOT_DIR == <<"repo">>

BACKUP_DIR == ROOT_DIR \o <<".context", "backups">>

\* process.cwd(): the commands are run in the repository root
CWD == ROOT_DIR

\* A relative path has "." as first component of dir: ./a.txt is
\* [dir |-> <<".">>, name |-> <<"a", "txt">>].
isAbsolute(p) == p.dir = <<>> \/ p.dir[1] # "."

\* path.resolve(p), also what the file system does with a relative path
resolve(p) == IF isAbsolute(p) THEN p ELSE Path(CWD \o Tail(p.dir), p.name)

\* The files the caller works on.
UserPaths ==
  { Path(<<"repo">>, <<"a", "txt">>),
    Path(<<"repo", "sub">>, <<"a", "txt", "old">>) }

Contents == {"draft", "final"}

\* The contents the caller gives to a file: a.txt is edited, a.txt.old is
\* only ever created.
ContentsOf(p) == IF p.dir = ROOT_DIR THEN Contents ELSE {"draft"}

Undefined == "undefined"

Comments == {"note"}

\* The explicit targets given to restore; NoPath: none given.
Targets == {NoPath, Path(<<"repo">>, <<"a", "txt">>)}

\* The filters given to list; NoPath: none given.
ListFilters == {NoPath, Path(<<"repo">>, <<"a", "txt">>)}

\* A backup path that never exists.
NoSuchBackup == Path(<<"no", "such">>, <<"backup", "bak">>)

basename(p) == p.name

\* The renderings of getTimestamp(), one per second of the clock.
TimestampStrings ==
  << "2025-12-30T17-30-00", "2025-12-30T17-30-01", "2025-12-30T17-30-02",
     "2025-12-30T17-30-03", "2025-12-30T17-30-04", "2025-12-30T17-30-05",
     "2025-12-30T17-30-06", "2025-12-30T17-30-07", "2025-12-30T17-30-08",
     "2025-12-30T17-30-09", "2025-12-30T17-30-10", "2025-12-30T17-30-11",
     "2025-12-30T17-30-12", "2025-12-30T17-30-13" >>

getTimestamp(t) == TimestampStrings[t + 1]

\* \d{4}-\d{2}-\d{2}T\d{2}-\d{2}-\d{2}
IsTimestamp(s) == \E i \in DOMAIN TimestampStrings : TimestampStrings[i] = s

getBackupPath(originalPath, t) ==
  Path(BACKUP_DIR, basename(originalPath) \o <<getTimestamp(t), "bak">>)

\* ---------------------------------------------------------------- helpers
IsPrefix(s, t) == Len(s) <= Len(t) /\ SubSeq(t, 1, Len(s)) = s

Min(a, b) == IF a <= b THEN a ELSE b

Front(s, n) == SubSeq(s, 1, n)

DropLast(s, n) == SubSeq(s, 1, Len(s) - n)

Range(s) == { s[i] : i \in DOMAIN s }

\* ------------------------------------------------------------- file system
File(content, mtime) == [content |-> content, mtime |-> mtime]

\* files with path p mapped to file f (created or overwritten)
WithFile(files, p, f) ==
  [q \in (DOMAIN files) \cup {p} |-> IF q = p THEN f ELSE files[q]]

Without(files, gone) == [q \in (DOMAIN files) \ gone |-> files[q]]

existsSync(files, p) == resolve(p) \in DOMAIN files

\* The mtime a write at clock t leaves on p. The store reads mtimes only in
\* BACKUP_DIR (ls -t); those of the other files are not tracked.
Mtime(p, t) == IF p.dir = BACKUP_DIR THEN t ELSE 0

\* fs.copyFileSync(src, dst): dst gets the bytes of src and a fresh mtime;
\* copying a file onto itself leaves it as it is.
copyFileSync(files, src, dst, t) ==
  IF resolve(src) = resolve(dst) THEN files
  ELSE WithFile(files, resolve(dst),
                File(files[resolve(src)].content, Mtime(resolve(dst), t)))

\* ------------------------------------------------------------ operation log
Record(timestamp, originalPath, backupPath, operation, comment) ==
  [timestamp |-> timestamp, originalPath |-> originalPath,
   backupPath |-> backupPath, operation |-> operation, comment |-> comment]

\* JSON.stringify(record): one line, the fields in the order of the literal
stringify(r) ==
  <<r.timestamp, r.originalPath, r.backupPath, r.operation, r.comment>>

\* JSON.parse(line)
parse(line) == Record(line[1], line[2], line[3], line[4], line[5])

\* recordOperation with the line written over the log instead of appended
recordOperationOverwrite(lg, exists, record, t) ==
  <<stringify([record EXCEPT !.timestamp = t])>>

\* recordOperation(record) at clock t: the content of the log afterwards.
\* The line is appended (flag 'a') behind the content read just before.
recordOperation(lg, exists, record, t) ==
  LET line     == stringify([record EXCEPT !.timestamp = t])
      existing == IF exists THEN lg ELSE <<>>
  IN  lg \o (existing \o <<line>>)

\* ------------------------------------------------------------------ restore
\* .replace(/\.context\/backups\/[^/]+\.(<ts>)\.bak$/, '$1')
Replace1(p) ==
  LET d == Len(p.dir)
      n == Len(p.name)
  IN  IF /\ d >= 2
         /\ p.dir[d - 1] = ".context"
         /\ p.dir[d] = "backups"
         /\ n >= 3
         /\ p.name[n] = "bak"
         /\ IsTimestamp(p.name[n - 1])
      THEN Path(DropLast(p.dir, 2), <<p.name[n - 1]>>)
      ELSE p

\* .replace(/\.context\/backups\//, ''): the first occurrence
Replace2(p) ==
  LET hits == { i \in 1..(Len(p.dir) - 1) :
                  p.dir[i] = ".context" /\ p.dir[i + 1] = "backups" }
  IN  IF hits = {} THEN p
      ELSE LET i == CHOOSE h \in hits : \A g \in hits : h <= g
           IN  Path(SubSeq(p.dir, 1, i - 1) \o SubSeq(p.dir, i + 2, Len(p.dir)),
                    p.name)

\* .replace(/\.<ts>\.bak$/, '')
Replace3(p) ==
  LET n == Len(p.name)
  IN  IF n >= 3 /\ p.name[n] = "bak" /\ IsTimestamp(p.name[n - 1])
      THEN Path(p.dir, DropLast(p.name, 2))
      ELSE p

\* the destination rollback derives when no target is given
derivedTarget(backupPath) ==
  Replace3(Replace2(Replace1(resolve(backupPath))))

\* -------------------------------------------------------------------- clean
\* the expansion of "${BACKUP_DIR}/${basename}".*.bak
globBak(files, base) ==
  { p \in DOMAIN files :
      /\ p.dir = BACKUP_DIR
      /\ Len(p.name) >= Len(base) + 2
      /\ Front(p.name, Len(base)) = base
      /\ p.name[Len(p.name)] = "bak" }

\* the outputs ls -t can give for a set of files: most recently modified
\* first, files of equal mtime in either order
RECURSIVE lsT(_, _)
lsT(files, S) ==
  IF S = {} THEN {<<>>}
  ELSE LET newest == { p \in S : \A q \in S : files[p].mtime >= files[q].mtime }
       IN  UNION { { <<p>> \o rest : rest \in lsT(files, S \ {p}) } :
                   p \in newest }

\* slice off by one: one file too many is kept
sliceOffByOne(s, keep) == SubSeq(s, keep + 2, Len(s))

\* backupFiles.slice(keep)
slice(s, keep) == SubSeq(s, keep + 1, Len(s))

\* lines 105-110: the files left when backupFiles is the listing
deleteOld(files, backupFiles, keep) ==
  IF Len(backupFiles) > keep
  THEN Without(files, Range(slice(backupFiles, keep)))
  ELSE files

\* --------------------------------------------------------------------- list
\* what listBackups(filePath) returns for a log; NoPath: no filter
listBackupsResult(lg, exists, filePath) ==
  IF ~exists THEN <<>>
  ELSE LET records == [i \in DOMAIN lg |-> parse(lg[i])]
       IN  IF filePath # NoPath
           THEN LET resolved == resolve(filePath)
                IN  SelectSeq(records,
                      LAMBDA r : r.originalPath = resolved
                                   \/ r.backupPath = resolved)
           ELSE records

\* ------------------------------------------------------------------ actions
\* the call a step makes and what it gave: err is "" when it returned,
\* ret the returned path, listing the returned records
Call(op, path, target, keep, err, ret, listing) ==
  [op |-> op, path |-> path, target |-> target, keep |-> keep,
   err |-> err, ret |-> ret, listing |-> listing]

\* maxBackups left out of the options
NoMaxBackups == -1

\* if (options.maxBackups): undefined and 0 are falsy
Truthy(n) == n # NoMaxBackups /\ n # 0

\* number of successful backup/restore operations so far
nOps == Len(performed)

\* no invocation runs concurrently
NoProcs == <<>>

\* the terminal dashboard is not running
NoTui == <<>>

\* the web dashboard is not open
NoWeb == <<>>

\* no command line has been run
NoCommand ==
  [args |-> [command |-> "none", file |-> NoPath, target |-> NoPath,
             keep |-> -1, maxBackups |-> -1, comment |-> "undefined"],
   out |-> <<>>, exit |-> 0]

Init ==
  /\ fs = <<>>
  /\ backupDirExists = FALSE
  /\ logExists = FALSE
  /\ log = <<>>
  /\ now = 0
  /\ last = Call("init", NoPath, NoPath, 0, "", NoPath, <<>>)
  /\ performed = <<>>
  /\ made = <<>>
  /\ cli = NoCommand
  /\ procs = NoProcs
  /\ tui = NoTui
  /\ web = NoWeb

\* backupFile that writes its record before it looks for the file
backupFileNotFoundLogged(filePath, maxBackups) ==
  /\ ~existsSync(fs, filePath)
  /\ log' = recordOperation(log, logExists,
               Record(now, filePath, getBackupPath(filePath, now), "backup",
                      Undefined), now)
  /\ logExists' = TRUE
  /\ last' = Call("backup", filePath, NoPath, 0, "NotFound", NoPath, <<>>)
  /\ UNCHANGED <<fs, backupDirExists, now, performed, made>>

\* backupFile(filePath, {maxBackups, comment}) on a missing file
backupFileNotFound(filePath, maxBackups) ==
  /\ ~existsSync(fs, filePath)
  /\ last' = Call("backup", filePath, NoPath, 0, "NotFound", NoPath, <<>>)
  /\ UNCHANGED <<fs, backupDirExists, logExists, log, now, performed, made>>

\* backupFile(filePath, {maxBackups, comment}) on an existing file
backupFileOk(filePath, maxBackups, comment) ==
  /\ existsSync(fs, filePath)
  /\ LET resolvedPath == resolve(filePath)
         backupPath == getBackupPath(resolvedPath, now)
         copied     == copyFileSync(fs, resolvedPath, backupPath, now)
         record     == Record(now, resolvedPath, backupPath, "backup", comment)
         matching   == globBak(copied, basename(resolvedPath))
     IN  /\ backupDirExists' = TRUE
         /\ log' = recordOperation(log, logExists, record, now)
         /\ logExists' = TRUE
         /\ performed' = Append(performed, record)
         /\ IF Truthy(maxBackups)
            THEN \E backupFiles \in lsT(copied, matching) :
                   fs' = deleteOld(copied, backupFiles, maxBackups)
            ELSE fs' = copied
         /\ last' = Call("backup", filePath, NoPath, maxBackups, "",
                         backupPath, <<>>)
         /\ made' = WithFile(made, backupPath,
                      [file |-> resolvedPath,
                       content |-> fs[resolvedPath].content])
  /\ UNCHANGED now

backupFile(filePath, maxBackups, comment) ==
  \/ backupFileNotFound(filePath, maxBackups)
  \/ backupFileOk(filePath, maxBackups, comment)

\* targetPath || resolve(backupPath).replace(...).replace(...).replace(...)
resolvedTargetOf(backupPath, targetPath) ==
  IF targetPath # NoPath THEN targetPath ELSE derivedTarget(backupPath)

\* rollback that opens its target for writing before it looks for the backup
rollbackNotFoundTruncates(backupPath, targetPath) ==
  /\ ~existsSync(fs, backupPath)
  /\ fs' = WithFile(fs, resolvedTargetOf(backupPath, targetPath), File("", 0))
  /\ last' = Call("restore", backupPath, targetPath, 0, "NotFound", NoPath, <<>>)
  /\ UNCHANGED <<backupDirExists, logExists, log, now, performed, made>>

\* rollback(backupPath, targetPath) when backupPath does not exist
rollbackNotFound(backupPath, targetPath) ==
  /\ ~existsSync(fs, backupPath)
  /\ last' = Call("restore", backupPath, targetPath, 0, "NotFound", NoPath, <<>>)
  /\ UNCHANGED <<fs, backupDirExists, logExists, log, now, performed, made>>

\* a rollback record tagged like a backup record
rollbackOperationAsBackup == "backup"

\* operation: 'rollback', the tag of the record rollback writes
rollbackOperation == "rollback"

\* rollback(backupPath, targetPath) of an existing backupPath
rollbackOk(backupPath, targetPath) ==
  /\ existsSync(fs, backupPath)
  /\ backupDirExists
  /\ LET resolvedTarget == resolvedTargetOf(backupPath, targetPath)
         record == Record(now, resolvedTarget, backupPath, rollbackOperation, Undefined)
     IN  /\ fs' = copyFileSync(fs, backupPath, resolvedTarget, now)
         /\ log' = recordOperation(log, logExists, record, now)
         /\ logExists' = TRUE
         /\ performed' = Append(performed, record)
         /\ last' = Call("restore", backupPath, targetPath, 0, "",
                         resolvedTarget, <<>>)
  /\ UNCHANGED <<backupDirExists, now, made>>

\* rollback(backupPath, targetPath) while BACKUP_DIR does not exist: the
\* copy is done, then writeFileSync of the log fails in recordOperation
rollbackNoLogDir(backupPath, targetPath) ==
  /\ existsSync(fs, backupPath)
  /\ ~backupDirExists
  /\ fs' = copyFileSync(fs, backupPath,
                         resolvedTargetOf(backupPath, targetPath), now)
  /\ last' = Call("restore", backupPath, targetPath, 0, "ENOENT", NoPath, <<>>)
  /\ UNCHANGED <<backupDirExists, logExists, log, now, performed, made>>

rollback(backupPath, targetPath) ==
  \/ rollbackNotFound(backupPath, targetPath)
  \/ rollbackOk(backupPath, targetPath)
  \/ rollbackNoLogDir(backupPath, targetPath)

\* cleanOldBackups(originalPath, keep)
cleanOldBackups(originalPath, keep) ==
  /\ \E backupFiles \in lsT(fs, globBak(fs, basename(originalPath))) :
       fs' = deleteOld(fs, backupFiles, keep)
  /\ last' = Call("clean", originalPath, NoPath, keep, "", NoPath, <<>>)
  /\ UNCHANGED <<backupDirExists, logExists, log, now, performed, made>>

\* listBackups that creates the log file when it is missing
listBackupsCreatesLog(filePath) ==
  LET records == listBackupsResult(log, logExists, filePath)
  IN  /\ last' = Call("list", filePath, NoPath, 0, "", NoPath, records)
      /\ logExists' = TRUE
      /\ UNCHANGED <<fs, backupDirExists, log, now, performed, made>>

\* listBackups(filePath)
listBackups(filePath) ==
  LET records == listBackupsResult(log, logExists, filePath)
  IN  /\ last' = Call("list", filePath, NoPath, 0, "", NoPath, records)
      /\ UNCHANGED <<fs, backupDirExists, logExists, log, now, performed, made>>

\* the caller writes content to one of its files
WriteFile(p, content) ==
  /\ fs' = WithFile(fs, p, File(content, Mtime(p, now)))
  /\ last' = Call("write", NoPath, NoPath, 0, "", NoPath, <<>>)
  /\ UNCHANGED <<backupDirExists, logExists, log, now, performed, made>>

\* time passes
Tick ==
  /\ now < MaxTime
  /\ now' = now + 1
  /\ last' = Call("tick", NoPath, NoPath, 0, "", NoPath, <<>>)
  /\ UNCHANGED <<fs, backupDirExists, logExists, log, performed, made>>

\* the artifacts in the backup directory
Artifacts(files) == { p \in DOMAIN files : p.dir = BACKUP_DIR }

\* The store called as a library (the exported functions), at most MaxOps
\* successful backups and restores.
Next ==
  \/ \E f \in UserPaths, n \in {NoMaxBackups} \cup 0..MaxKeep :
       backupFileNotFound(f, n) /\ UNCHANGED <<cli, procs, tui, web>>
  \/ \E f \in UserPaths, n \in {NoMaxBackups} \cup 0..MaxKeep, c \in Comments :
       nOps < MaxOps /\ backupFileOk(f, n, c) /\ UNCHANGED <<cli, procs, tui, web>>
  \/ \E b \in Artifacts(fs) \cup {NoSuchBackup}, t \in Targets :
       rollbackNotFound(b, t) /\ UNCHANGED <<cli, procs, tui, web>>
  \/ \E b \in Artifacts(fs) \cup {NoSuchBackup}, t \in Targets :
       nOps < MaxOps /\ rollbackOk(b, t) /\ UNCHANGED <<cli, procs, tui, web>>
  \/ \E f \in UserPaths, k \in 0..MaxKeep :
       cleanOldBackups(f, k) /\ UNCHANGED <<cli, procs, tui, web>>
  \/ \E f \in ListFilters : listBackups(f) /\ UNCHANGED <<cli, procs, tui, web>>
  \/ \E p \in UserPaths : \E c \in ContentsOf(p) :
       WriteFile(p, c) /\ UNCHANGED <<cli, procs, tui, web>>
  \/ Tick /\ UNCHANGED <<cli, procs, tui, web>>

Spec == Init /\ [][Next]_vars

\* ============================================================ command line
MaxCliOps == 11

\* what the caller types for a path below CWD
relative(p) ==
  Path(<<".">> \o SubSeq(p.dir, Len(CWD) + 1, Len(p.dir)), p.name)

\* the paths typed on the command line: a file that exists, one that does
\* not, and a destination
CliFile == Path(<<".">>, <<"a", "txt">>)
CliMissing == Path(<<".">>, <<"missing", "txt">>)
CliCopy == Path(<<".">>, <<"copy", "txt">>)

\* an argument that was not given (parseInt of it is NaN)
NoArg == -1

\* process.argv.slice(2): args[0], args[1], args[2] as restore and as clean
\* read it, and the values behind --max-backups and --comment
Argv(command, file, target, keep, maxBackups, comment) ==
  [command |-> command, file |-> file, target |-> target, keep |-> keep,
   maxBackups |-> maxBackups, comment |-> comment]

NoFlags(command, file) == Argv(command, file, NoPath, NoArg, NoArg, Undefined)

\* parseInt(arg, 10) || dflt, for an absent or non-negative arg
parseIntOr(arg, dflt) == IF arg = NoArg \/ arg = 0 THEN dflt ELSE arg

DefaultMaxBackups == 10
DefaultKeep == 5

\* backup without a default retention when --max-backups is absent
cliMaxBackupsNoDefault(args) ==
  IF args.maxBackups = NoArg THEN NoMaxBackups
  ELSE parseIntOr(args.maxBackups, DefaultMaxBackups)

\* maxBackupsIdx >= 0 ? parseInt(args[maxBackupsIdx + 1], 10) || 10 : 10
cliMaxBackups(args) ==
  IF args.maxBackups = NoArg THEN DefaultMaxBackups
  ELSE parseIntOr(args.maxBackups, DefaultMaxBackups)

\* what a command leaves behind: its output lines and its exit code
Exit(args, out, code) == [args |-> args, out |-> out, exit |-> code]

\* a catch block that reports the error and exits 0
failExitsZero(args, message) == Exit(args, <<<<"Error: ", message>>>>, 0)

\* catch (err) { console.error(`Error: ${message}`); process.exit(1); }
fail(args, message) == Exit(args, <<<<"Error: ", message>>>>, 1)

\* the lines list prints for the records it got
RECURSIVE listLines(_)
listLines(records) ==
  IF records = <<>> THEN <<>>
  ELSE LET r == Head(records)
       IN  <<<<r.timestamp, r.operation, r.backupPath>>>>
             \o (IF r.comment # Undefined
                 THEN <<<<"  Comment: ", r.comment>>>> ELSE <<>>)
             \o listLines(Tail(records))

\* no command, -h or --help
mainUsage(args) ==
  /\ args.command \in {"", "-h", "--help"}
  /\ cli' = Exit(args, <<<<"Usage: safe-op <command> [options]">>>>, 0)
  /\ UNCHANGED <<fs, backupDirExists, logExists, log, now, last, performed, made>>

\* case 'backup'
mainBackup(args) ==
  /\ args.command = "backup"
  /\ IF args.file = NoPath
     THEN /\ cli' = fail(args, "File path required")
          /\ UNCHANGED <<fs, backupDirExists, logExists, log, now, last,
                         performed, made>>
     ELSE /\ backupFile(args.file, cliMaxBackups(args), args.comment)
          /\ cli' = IF last'.err = ""
                    THEN Exit(args, <<<<"Backup created: ", last'.ret>>>>, 0)
                    ELSE fail(args, last'.err)

\* case 'restore'
mainRestore(args) ==
  /\ args.command = "restore"
  /\ IF args.file = NoPath
     THEN /\ cli' = fail(args, "Backup path required")
          /\ UNCHANGED <<fs, backupDirExists, logExists, log, now, last,
                         performed, made>>
     ELSE /\ rollback(args.file, args.target)
          /\ cli' = IF last'.err = ""
                    THEN Exit(args, <<<<"Restored: ", last'.ret>>>>, 0)
                    ELSE fail(args, last'.err)

\* case 'list'
mainList(args) ==
  /\ args.command = "list"
  /\ listBackups(args.file)
  /\ cli' = Exit(args,
                 IF Len(last'.listing) = 0 THEN <<<<"No backups found.">>>>
                 ELSE listLines(last'.listing),
                 0)

\* case 'clean'
mainClean(args) ==
  /\ args.command = "clean"
  /\ LET keep == parseIntOr(args.keep, DefaultKeep)
     IN  IF args.file = NoPath
         THEN /\ cli' = fail(args, "File path required")
              /\ UNCHANGED <<fs, backupDirExists, logExists, log, now, last,
                             performed, made>>
         ELSE /\ cleanOldBackups(args.file, keep)
              /\ cli' = Exit(args, <<<<"Cleaned backups for ", args.file, keep>>>>, 0)

\* default: throw new Error(`Unknown command: ${command}`)
mainUnknown(args) ==
  /\ args.command \notin {"", "-h", "--help", "backup", "restore", "list", "clean"}
  /\ cli' = fail(args, "Unknown command")
  /\ UNCHANGED <<fs, backupDirExists, logExists, log, now, last, performed, made>>

main(args) ==
  \/ mainUsage(args)
  \/ mainBackup(args)
  \/ mainRestore(args)
  \/ mainList(args)
  \/ mainClean(args)
  \/ mainUnknown(args)

\* ------------------------------------------------------ make clean-backups
KEEP == 5

\* sed 's/\.[0-9].*//' on a file name: everything from the first segment that
\* starts with a digit is cut off
sedBase(name) ==
  LET hits == { i \in 2..Len(name) : IsTimestamp(name[i]) }
  IN  IF hits = {} THEN name
      ELSE SubSeq(name, 1, (CHOOSE i \in hits : \A j \in hits : i <= j) - 1)

\* sort -u of the base names: a name comes before the names it is a prefix
\* of (names that are no prefix of each other have disjoint globs)
RECURSIVE sortU(_)
sortU(S) ==
  IF S = {} THEN <<>>
  ELSE LET first == CHOOSE b \in S : \A c \in S : Len(b) <= Len(c)
       IN  <<first>> \o sortU(S \ {first})

\* "$(BACKUP_DIR)/${base}"*.bak
globStarBak(files, base) ==
  { p \in DOMAIN files :
      /\ p.dir = BACKUP_DIR
      /\ Len(p.name) >= Len(base) + 1
      /\ Front(p.name, Len(base)) = base
      /\ p.name[Len(p.name)] = "bak" }

\* tail -n +K: the lines from the K-th on
tailFrom(lines, K) == IF K <= 1 THEN lines ELSE SubSeq(lines, K, Len(lines))

\* while read base; do ls -t ... | tail -n +$(KEEP) | xargs rm -f; done: the
\* backup directories the loop can leave
RECURSIVE cleanBases(_, _, _)
cleanBases(files, bases, K) ==
  IF bases = <<>> THEN {files}
  ELSE UNION { cleanBases(Without(files, Range(tailFrom(listing, K))),
                          Tail(bases), K) :
               listing \in lsT(files, globStarBak(files, Head(bases))) }

\* the clean-backups target of the Makefile, run in the repository root
makeCleanBackups(K) ==
  /\ IF backupDirExists
     THEN /\ fs' \in cleanBases(fs,
                       sortU({ sedBase(p.name) :
                               p \in { q \in Artifacts(fs) :
                                         q.name[Len(q.name)] = "bak" } }), K)
          /\ cli' = Exit(NoFlags("make clean-backups", NoPath),
                         <<<<"Cleaning backups">>, <<"Done.">>>>, 0)
     ELSE /\ fs' = fs
          /\ cli' = Exit(NoFlags("make clean-backups", NoPath),
                         <<<<"Cleaning backups">>, <<"No backups found.">>>>, 0)
  /\ last' = Call("make", NoPath, NoPath, K, "", NoPath, <<>>)
  /\ UNCHANGED <<backupDirExists, logExists, log, now, performed, made>>

\* ------------------------------------------------- command-line sessions
\* a.txt exists; nothing has been backed up
InitCli ==
  /\ fs = WithFile(<<>>, resolve(CliFile), File("draft", 0))
  /\ backupDirExists = FALSE
  /\ logExists = FALSE
  /\ log = <<>>
  /\ now = 0
  /\ last = Call("init", NoPath, NoPath, 0, "", NoPath, <<>>)
  /\ performed = <<>>
  /\ made = <<>>
  /\ cli = NoCommand
  /\ procs = NoProcs
  /\ tui = NoTui
  /\ web = NoWeb

\* no backup has been made in the current second
FreshSecond == getBackupPath(resolve(CliFile), now) \notin DOMAIN made

\* a second passes after a backup command
CliTick ==
  /\ ~FreshSecond
  /\ nOps < MaxCliOps
  /\ now' = now + 1
  /\ last' = Call("tick", NoPath, NoPath, 0, "", NoPath, <<>>)
  /\ cli' = NoCommand
  /\ UNCHANGED <<fs, backupDirExists, logExists, log, performed, made>>

\* Short sessions of safe-op commands typed in the repository root, with
\* relative paths: at most MaxOps successful backups and restores, the
\* backups at distinct seconds.
NextCli ==
  \/ \E n \in {NoArg} \cup 0..MaxKeep, c \in {Undefined} \cup Comments :
       /\ nOps < MaxOps /\ FreshSecond
       /\ mainBackup(Argv("backup", CliFile, NoPath, NoArg, n, c))
       /\ UNCHANGED others
  \/ \E f \in {NoPath, CliMissing} :
       mainBackup(NoFlags("backup", f)) /\ UNCHANGED others
  \/ \E b \in {NoPath, CliMissing, CliFile}
                \cup { relative(a) : a \in Artifacts(fs) },
        t \in {NoPath, CliCopy} :
       /\ nOps < MaxOps
       /\ mainRestore(Argv("restore", b, t, NoArg, NoArg, Undefined))
       /\ UNCHANGED others
  \/ \E f \in {NoPath, CliFile, CliCopy} :
       mainList(NoFlags("list", f)) /\ UNCHANGED others
  \/ \E f \in {NoPath, CliFile}, k \in {NoArg} \cup 0..MaxKeep :
       mainClean(Argv("clean", f, NoPath, k, NoArg, Undefined))
         /\ UNCHANGED others
  \/ \E c \in {"", "-h", "--help", "frobnicate"} :
       nOps < MaxOps /\ main(NoFlags(c, NoPath)) /\ UNCHANGED others
  \/ CliTick /\ UNCHANGED others

SpecCli == InitCli /\ [][NextCli]_vars

\* Long sessions: backup commands without --max-backups at distinct seconds,
\* clean commands and make clean-backups.
NextKeep ==
  \/ /\ nOps < MaxCliOps /\ FreshSecond
     /\ mainBackup(NoFlags("backup", CliFile))
     /\ UNCHANGED others
  \/ \E k \in {NoArg} \cup 0..MaxKeep :
       mainClean(Argv("clean", CliFile, NoPath, k, NoArg, Undefined))
         /\ UNCHANGED others
  \/ makeCleanBackups(KEEP) /\ UNCHANGED others
  \/ CliTick /\ UNCHANGED others

SpecKeep == InitCli /\ [][NextKeep]_vars

\* ============================================================ concurrency
\* Two invocations of backupFile and one of cleanOldBackups run at the same
\* time, within one second; a step is one call to the file system.
Backups == {"b1", "b2"}
Cleaner == "c"
RaceProcs == Backups \cup {Cleaner}

RaceFile == Path(<<"repo">>, <<"a", "txt">>)
RaceOther == Path(<<"repo", "sub">>, <<"a", "txt", "old">>)

\* an invocation that has not started: its position and its locals
IdleProc ==
  [pc |-> "idle", file |-> NoPath, keep |-> NoMaxBackups,
   backupPath |-> NoPath, existing |-> <<>>, listed |-> <<>>,
   toDelete |-> <<>>, removed |-> {}, copied |-> FALSE, recorded |-> FALSE,
   err |-> ""]

Max(S) == CHOOSE x \in S : \A y \in S : x >= y

\* the mtime a copy gets: the file system's clock is finer than a second, so
\* it is later than the mtime of every artifact written before
NextMtime(files) ==
  1 + Max({0} \cup { files[a].mtime : a \in Artifacts(files) })

\* writeFileSync(logPath, data, { flag: 'w' }): the file is replaced
writeFileTruncate(lg, data) == data

\* writeFileSync(logPath, data, { flag: 'a' }): data lands behind what the
\* file holds at that moment
writeFileAppend(lg, data) == lg \o data

\* the position after the existence check and ensureBackupDir, for a
\* backupFile that writes its record without copying
pcAfterStartSkipsCopy == "logRead"

\* the position after the existence check and ensureBackupDir: the copy
pcAfterStart == "copy"

\* backupFile lines 50-56: the paths, the existence check, ensureBackupDir
bStart(p, filePath, maxBackups) ==
  /\ procs[p].pc = "idle"
  /\ IF existsSync(fs, filePath)
     THEN /\ backupDirExists' = TRUE
          /\ procs' = [procs EXCEPT ![p] =
               [@ EXCEPT !.pc = pcAfterStart,
                         !.file = resolve(filePath),
                         !.keep = maxBackups,
                         !.backupPath = getBackupPath(resolve(filePath), now)]]
     ELSE /\ procs' = [procs EXCEPT ![p] =
               [@ EXCEPT !.pc = "done", !.file = resolve(filePath),
                         !.err = "NotFound"]]
          /\ UNCHANGED backupDirExists
  /\ UNCHANGED <<fs, logExists, log, now, last, performed, made, cli, tui, web>>

\* backupFile line 58: copyFileSync(resolvedPath, backupPath)
bCopy(p) ==
  /\ procs[p].pc = "copy"
  /\ fs' = copyFileSync(fs, procs[p].file, procs[p].backupPath, NextMtime(fs))
  /\ made' = WithFile(made, procs[p].backupPath,
                      [file |-> procs[p].file,
                       content |-> fs[procs[p].file].content])
  /\ procs' = [procs EXCEPT ![p] = [@ EXCEPT !.pc = "logRead", !.copied = TRUE]]
  /\ UNCHANGED <<backupDirExists, logExists, log, now, last, performed, cli,
                 tui, web>>

\* backupFile line 58: copyFileSync throws (no space, no permission)
bCopyFails(p) ==
  /\ procs[p].pc = "copy"
  /\ procs' = [procs EXCEPT ![p] = [@ EXCEPT !.pc = "done", !.err = "CopyFailed"]]
  /\ UNCHANGED <<fs, backupDirExists, logExists, log, now, last, performed,
                 made, cli, tui, web>>

\* recordOperation line 45: existing = existsSync(logPath) ? readFileSync : ''
bLogRead(p) ==
  /\ procs[p].pc = "logRead"
  /\ procs' = [procs EXCEPT ![p] =
       [@ EXCEPT !.pc = "logWrite",
                 !.existing = IF logExists THEN log ELSE <<>>]]
  /\ UNCHANGED <<fs, backupDirExists, logExists, log, now, last, performed,
                 made, cli, tui, web>>

\* recordOperation line 46: writeFileSync(logPath, existing + line, 'a');
\* the record carries the invocation's name as its comment
bLogWrite(p) ==
  /\ procs[p].pc = "logWrite"
  /\ LET record == Record(now, procs[p].file, procs[p].backupPath, "backup", p)
     IN  /\ log' = writeFileAppend(log, procs[p].existing \o <<stringify(record)>>)
         /\ performed' = Append(performed, record)
  /\ logExists' = TRUE
  /\ procs' = [procs EXCEPT ![p] =
       [@ EXCEPT !.pc = IF Truthy(procs[p].keep) THEN "ls" ELSE "done",
                 !.recorded = TRUE]]
  /\ UNCHANGED <<fs, backupDirExists, now, last, made, cli, tui, web>>

\* cleanOldBackups(originalPath, keep) is called
cStart(p, originalPath, keep) ==
  /\ procs[p].pc = "idle"
  /\ procs' = [procs EXCEPT ![p] =
       [@ EXCEPT !.pc = "ls", !.file = originalPath, !.keep = keep]]
  /\ UNCHANGED <<fs, backupDirExists, logExists, log, now, last, performed,
                 made, cli, tui, web>>

\* cleanOldBackups lines 100-106: ls -t and backupFiles.slice(keep)
cList(p) ==
  /\ procs[p].pc = "ls"
  /\ \E backupFiles \in lsT(fs, globBak(fs, basename(procs[p].file))) :
       LET toDelete == IF Len(backupFiles) > procs[p].keep
                       THEN slice(backupFiles, procs[p].keep) ELSE <<>>
       IN  procs' = [procs EXCEPT ![p] =
             [@ EXCEPT !.pc = IF toDelete = <<>> THEN "done" ELSE "rm",
                       !.listed = backupFiles,
                       !.toDelete = toDelete]]
  /\ UNCHANGED <<fs, backupDirExists, logExists, log, now, last, performed,
                 made, cli, tui, web>>

\* cleanOldBackups lines 107-109: one execSync(`rm "${f}"`); rm of a file
\* that is gone fails and execSync throws
cRemove(p) ==
  /\ procs[p].pc = "rm"
  /\ LET f == Head(procs[p].toDelete)
     IN  IF f \in DOMAIN fs
         THEN /\ fs' = Without(fs, {f})
              /\ procs' = [procs EXCEPT ![p] =
                   [@ EXCEPT !.pc = IF Tail(procs[p].toDelete) = <<>>
                                    THEN "done" ELSE "rm",
                             !.toDelete = Tail(procs[p].toDelete),
                             !.removed = @ \cup {f}]]
         ELSE /\ fs' = fs
              /\ procs' = [procs EXCEPT ![p] =
                   [@ EXCEPT !.pc = "done", !.err = "RmFailed"]]
  /\ UNCHANGED <<backupDirExists, logExists, log, now, last, performed, made,
                 cli, tui, web>>

\* a.txt and sub/a.txt.old have been backed up, in this order, in second 0;
\* the invocations start in that second or in a later one
InitRace ==
  LET A  == getBackupPath(RaceFile, 0)
      B  == getBackupPath(RaceOther, 0)
      r1 == Record(0, RaceFile, A, "backup", Undefined)
      r2 == Record(0, RaceOther, B, "backup", Undefined)
  IN  /\ fs = WithFile(WithFile(WithFile(WithFile(<<>>,
                RaceFile, File("draft", 0)), RaceOther, File("draft", 0)),
                A, File("draft", 1)), B, File("draft", 2))
      /\ backupDirExists = TRUE
      /\ logExists = TRUE
      /\ log = recordOperation(recordOperation(<<>>, FALSE, r1, 0), TRUE, r2, 0)
      /\ now \in 0..MaxTime
      /\ last = Call("init", NoPath, NoPath, 0, "", NoPath, <<>>)
      /\ performed = <<r1, r2>>
      /\ made = WithFile(WithFile(<<>>,
                  A, [file |-> RaceFile, content |-> "draft"]),
                  B, [file |-> RaceOther, content |-> "draft"])
      /\ cli = NoCommand
      /\ procs = [p \in RaceProcs |-> IdleProc]
      /\ tui = NoTui
      /\ web = NoWeb

NextRace ==
  \/ \E p \in Backups, f \in UserPaths \cup {CliMissing},
        n \in {NoMaxBackups} \cup 1..MaxKeep : bStart(p, f, n)
  \/ \E p \in Backups : bCopy(p)
  \/ \E p \in Backups : bCopyFails(p)
  \/ \E p \in Backups : bLogRead(p)
  \/ \E p \in Backups : bLogWrite(p)
  \/ \E k \in 0..MaxKeep : cStart(Cleaner, RaceFile, k)
  \/ \E p \in RaceProcs : cList(p)
  \/ \E p \in RaceProcs : cRemove(p)

SpecRace == InitRace /\ [][NextRace]_vars

\* ====================================================== terminal dashboard
MaxRuns == 2

\* the variables of the backup store and its command line
store ==
  <<fs, backupDirExists, logExists, log, now, last, performed, made, cli>>

\* Map.set(k, v) and Map.delete(k)
MapSet(m, k, v) ==
  [x \in DOMAIN m \cup {k} |-> IF x = k THEN v ELSE m[x]]
MapDelete(m, k) == [x \in DOMAIN m \ {k} |-> m[x]]

\* a % n of JavaScript: the result has the sign of a
jsMod(a, n) == IF a >= 0 THEN a % n ELSE 0 - ((0 - a) % n)

\* the helper definitions: whether the entry has a cmd, whether it is special
helpers ==
  << [id |-> "check",  cmd |-> TRUE,  special |-> FALSE, key |-> "1"],
     [id |-> "sync",   cmd |-> TRUE,  special |-> FALSE, key |-> "2"],
     [id |-> "docs",   cmd |-> TRUE,  special |-> FALSE, key |-> "3"],
     [id |-> "backup", cmd |-> TRUE,  special |-> FALSE, key |-> "4"],
     [id |-> "test",   cmd |-> TRUE,  special |-> FALSE, key |-> "5"],
     [id |-> "hook",   cmd |-> TRUE,  special |-> FALSE, key |-> "6"],
     [id |-> "all",    cmd |-> FALSE, special |-> TRUE,  key |-> "7"] >>

helpersLength == Len(helpers)

\* helpers[index], for an index of the array (which starts at 0)
helper(index) == helpers[index + 1]
Indexes == 0..(helpersLength - 1)

\* renderStatusBar: the Passed and the Errors field
renderStatusBar(t) ==
  [passed |-> IF 0 \in DOMAIN t.results /\ t.results[0] = "ok" THEN 1 ELSE 0,
   errors |-> IF 0 \in DOMAIN t.results /\ t.results[0] = "error" THEN 1 ELSE 0]

\* render(): the screen shows the state of this moment
render(t) == [t EXCEPT !.bar = renderStatusBar(t)]

\* the number of child processes spawned so far
Spawned(t) == t.started[0] + t.started[1] + t.started[2] + t.started[3]
              + t.started[4] + t.started[5] + t.started[6]

\* runHelper(index): the state when it returns. The child is named by its
\* helper and by the number of the run; resultRun remembers which run a
\* result comes from.
runHelper(t, index) ==
  IF index \notin Indexes \/ helper(index).special \/ ~helper(index).cmd
  THEN t
  ELSE LET run == t.started[index] + 1
           rendered == render([t EXCEPT !.running = @ \cup {index},
                                        !.results = MapDelete(@, index),
                                        !.resultRun = MapDelete(@, index)])
       IN  [rendered EXCEPT
              !.children = @ \cup {[helper |-> index, run |-> run]},
              !.started = [@ EXCEPT ![index] = run],
              !.output = "lines"]

\* the first index from i on that runAll runs, helpersLength if there is none
nextRunnable(i) ==
  LET js == { j \in Indexes : j >= i /\ ~helper(j).special /\ helper(j).cmd }
  IN  IF js = {} THEN helpersLength
      ELSE CHOOSE j \in js : \A l \in js : j <= l

\* runAll's loop from index i up to its next await: the helper is started
\* and a 2000 ms timer is set, after which the loop goes on behind it
runAllFrom(t, i) ==
  LET j == nextRunnable(i)
  IN  IF j < helpersLength
      THEN [runHelper(t, j) EXCEPT !.timers = Append(@, j + 1)]
      ELSE t

runAll(t) == runAllFrom(t, 0)

\* the sequence s without its i-th element
RemoveAt(s, i) == SubSeq(s, 1, i - 1) \o SubSeq(s, i + 1, Len(s))

\* state.selected for up/k without the + helpers.length
upNoWrap(selected) == jsMod(selected - 1, helpersLength)

\* state.selected for up/k and for down/j
up(selected) == jsMod(selected - 1 + helpersLength, helpersLength)
down(selected) == jsMod(selected + 1, helpersLength)

\* the keys the terminal sends: q, r, j, k, the arrows, Enter, the digits and
\* a key without a binding
Digits == {"1", "2", "3", "4", "5", "6", "7"}
Keys == {"q", "r", "j", "k", "down", "up", "enter", "x"} \cup Digits

\* parseInt(key) for a digit key
parseInt(key) == CHOOSE n \in 1..helpersLength : helper(n - 1).key = key

\* the state after main(): setup and the first render
StartTui ==
  render([alive |-> TRUE, selected |-> 0, running |-> {}, results |-> <<>>,
          output |-> "empty", children |-> {},
          started |-> [i \in Indexes |-> 0], timers |-> <<>>,
          resultRun |-> <<>>, key |-> "", bar |-> [passed |-> 0, errors |-> 0]])

\* handleKey(key): the state when the handler returns; key remembers the
\* key of the last event, "" when the last event was not a key
handleKey(t, key) ==
  LET k == [t EXCEPT !.key = key]
  IN  CASE key = "q" -> [k EXCEPT !.alive = FALSE]
        [] key = "r" ->
             render([k EXCEPT !.results = <<>>, !.resultRun = <<>>,
                              !.running = {}, !.output = "empty"])
        [] key \in {"j", "down"} ->
             render([k EXCEPT !.selected = down(t.selected)])
        [] key \in {"k", "up"} ->
             render([k EXCEPT !.selected = up(t.selected)])
        [] key = "enter" ->
             IF helper(t.selected).special THEN runAll(k)
             ELSE runHelper(k, t.selected)
        [] key \in Digits ->
             LET index == parseInt(key) - 1
             IN  IF index < helpersLength
                 THEN LET s == render([k EXCEPT !.selected = index])
                      IN  IF helper(index).special THEN runAll(s)
                          ELSE runHelper(s, index)
                 ELSE k
        [] OTHER -> k

\* a key that starts a child process
Spawns(key) == key = "enter" \/ key \in Digits

\* process.stdin 'data': handleKey(str)
KeyPress(key) ==
  /\ tui.alive
  /\ Spawns(key) => Spawned(tui) < MaxRuns
  /\ tui' = handleKey(tui, key)
  /\ UNCHANGED <<store, procs, web>>

\* proc.stdout / proc.stderr 'data' of a child that has not closed
ChildData(child) ==
  /\ tui.alive
  /\ child \in tui.children
  /\ tui' = render([tui EXCEPT !.output = "lines", !.key = ""])
  /\ UNCHANGED <<store, procs, web>>

\* proc 'close' with exit code 0 (ok) or another code
ChildClose(child, ok) ==
  /\ tui.alive
  /\ child \in tui.children
  /\ tui' = [render([tui EXCEPT
                !.running = @ \ {child.helper},
                !.results = MapSet(@, child.helper,
                                   IF ok THEN "ok" ELSE "error"),
                !.resultRun = MapSet(@, child.helper, child.run),
                !.output = "lines", !.key = ""])
             EXCEPT !.children = @ \ {child}]
  /\ UNCHANGED <<store, procs, web>>

\* the 2000 ms timer of a runAll fires: its loop goes on
TimerFires(i) ==
  /\ tui.alive
  /\ i \in DOMAIN tui.timers
  /\ Spawned(tui) < MaxRuns
  /\ tui' = runAllFrom([tui EXCEPT !.timers = RemoveAt(@, i), !.key = ""],
                       tui.timers[i])
  /\ UNCHANGED <<store, procs, web>>

InitTui ==
  /\ fs = <<>>
  /\ backupDirExists = FALSE
  /\ logExists = FALSE
  /\ log = <<>>
  /\ now = 0
  /\ last = Call("init", NoPath, NoPath, 0, "", NoPath, <<>>)
  /\ performed = <<>>
  /\ made = <<>>
  /\ cli = NoCommand
  /\ procs = NoProcs
  /\ tui = StartTui
  /\ web = NoWeb

NextTui ==
  \/ \E key \in Keys : KeyPress(key)
  \/ \E child \in tui.children : ChildData(child)
  \/ \E child \in tui.children, ok \in BOOLEAN : ChildClose(child, ok)
  \/ \E i \in DOMAIN tui.timers : TimerFires(i)

SpecTui == InitTui /\ [][NextTui]_vars

\* ============================================================ web dashboard
MaxClicks == 3

\* the ids of the dashboard's helpers, in the order of the array
appHelpers ==
  <<"check-consistency", "git-sync", "doc-validator", "safe-op", "committer",
    "test-helpers", "pre-commit">>

\* the positions of the array after position i that check-all runs
appAfter(i) ==
  { j \in DOMAIN appHelpers : j > i /\ appHelpers[j] # "safe-op" }

\* updateStats: the counters on the page
updateStats(w) ==
  [w EXCEPT !.stats =
     [passed |-> Cardinality({ h \in DOMAIN w.results : w.results[h] = "ok" }),
      warnings |-> Cardinality({ h \in DOMAIN w.results :
                                   w.results[h] = "warning" }),
      errors |-> Cardinality({ h \in DOMAIN w.results :
                                 w.results[h] = "error" })]]

\* the page after init()
StartWeb ==
  updateStats([running |-> {}, results |-> <<>>, runs |-> {}, loops |-> {},
               clicks |-> 0,
               stats |-> [passed |-> 0, warnings |-> 0, errors |-> 0]])

\* a runHelper without the test: no helper counts as running
neverRunning(w, id) == FALSE

\* state.running.has(helper.id)
isRunning(w, id) == id \in w.running

\* the runs of helper id whose simulateCommand has not settled
InFlight(w, id) == { r \in w.runs : r.helper = id }

\* runHelper(helper) up to its await: a run of the helper is in flight, for
\* the caller owner (0: a click, n: the check-all started by click n)
appRunHelper(w, id, owner) ==
  IF isRunning(w, id) THEN w
  ELSE [w EXCEPT !.running = @ \cup {id},
                 !.runs = @ \cup {[helper |-> id, owner |-> owner,
                                   nth |-> Cardinality(InFlight(w, id)) + 1]}]

\* check-all's loop arrives at position i: runHelper(helper), and the loop
\* waits for the run it started or, when none was started, for its 500 ms
\* timer
appLoopAt(w, n, i) ==
  LET started == appRunHelper(w, appHelpers[i], n)
      phase   == IF started = w THEN "timer" ELSE "run"
  IN  [started EXCEPT !.loops = @ \cup {[id |-> n, i |-> i, phase |-> phase]}]

\* what simulateCommand's promise can do: it only ever resolves
simulateCommand == {"resolve"}

\* handleHelperAction('run', id): a click on a card's Run button
ClickRun(id) ==
  /\ web.clicks < MaxClicks
  /\ web' = appRunHelper([web EXCEPT !.clicks = @ + 1], id, 0)
  /\ UNCHANGED <<store, procs, tui>>

\* handleQuickAction(action): a click on a quick-action button
handleQuickAction(action) ==
  /\ web.clicks < MaxClicks
  /\ LET w == [web EXCEPT !.clicks = @ + 1]
     IN  web' = CASE action = "check-all" -> appLoopAt(w, w.clicks, 1)
                  [] action = "sync-git" -> appRunHelper(w, "git-sync", 0)
                  [] OTHER -> w
  /\ UNCHANGED <<store, procs, tui>>

\* simulateCommand settles: the rest of runHelper, then the caller goes on
\* (a check-all loop sets its 500 ms timer)
CommandSettles(run, outcome) ==
  /\ run \in web.runs
  /\ LET result == IF outcome = "resolve" THEN "ok" ELSE "error"
         w == [web EXCEPT !.results = MapSet(@, run.helper, result),
                          !.running = @ \ {run.helper},
                          !.runs = @ \ {run}]
     IN  web' = [updateStats(w) EXCEPT !.loops =
                   { IF l.id = run.owner /\ l.phase = "run"
                     THEN [l EXCEPT !.phase = "timer"] ELSE l : l \in @ }]
  /\ UNCHANGED <<store, procs, tui>>

\* the 500 ms timer of a check-all fires: the loop goes to the next helper,
\* or ends behind the last one
LoopTimer(l) ==
  /\ l \in web.loops
  /\ l.phase = "timer"
  /\ LET w == [web EXCEPT !.loops = @ \ {l}]
         next == appAfter(l.i)
     IN  web' = IF next = {} THEN w
                ELSE appLoopAt(w, l.id,
                               CHOOSE j \in next : \A k \in next : j <= k)
  /\ UNCHANGED <<store, procs, tui>>

InitWeb ==
  /\ fs = <<>>
  /\ backupDirExists = FALSE
  /\ logExists = FALSE
  /\ log = <<>>
  /\ now = 0
  /\ last = Call("init", NoPath, NoPath, 0, "", NoPath, <<>>)
  /\ performed = <<>>
  /\ made = <<>>
  /\ cli = NoCommand
  /\ procs = NoProcs
  /\ tui = NoTui
  /\ web = StartWeb

NextWeb ==
  \/ \E id \in Range(appHelpers) : ClickRun(id)
  \/ \E action \in {"check-all", "sync-git", "backup-all", "setup-hook"} :
       handleQuickAction(action)
  \/ \E run \in web.runs, outcome \in simulateCommand :
       CommandSettles(run, outcome)
  \/ \E l \in web.loops : LoopTimer(l)

SpecWeb == InitWeb /\ [][NextWeb]_vars

\* =================================================================== claims
NonDecreasing(rs) ==
  \A i, j \in DOMAIN rs : i < j => rs[i].timestamp <= rs[j].timestamp

\* C1: after backup(f) returned artifact a while f held content C, and f was
\* overwritten, restore(a) without a target leaves f with content C.
C1_RoundTrip ==
  (last.op = "restore" /\ last.err = "" /\ last.target = NoPath
     /\ last.path \in DOMAIN made)
  => /\ made[last.path].file \in DOMAIN fs
     /\ fs[made[last.path].file].content = made[last.path].content

\* C2: the log holds exactly one record per successful backup or restore.
C2_OneRecordPerOperation == Len(log) = nOps

\* C3: the log is append-only: its content before a step is a prefix of its
\* content after the step, whatever the step is.
C3_LogAppendOnly == [][IsPrefix(log, log')]_vars

\* C3 witness: a clean has pruned an artifact that records of the log name,
\* and the log still holds them.
C3_Witness ==
  /\ last.op = "clean"
  /\ Len(log) >= 3
  /\ \E i \in DOMAIN log : parse(log[i]).backupPath \notin DOMAIN fs

\* C4: clean(f, k) leaves min(k, count before) of the artifacts matching f's
\* base name, all of them from before and none older than a deleted one, and
\* touches nothing else; it raises no error, also when nothing matches.
C4_Retention ==
  [][last'.op = "clean" =>
       LET before == globBak(fs, basename(last'.path))
           after  == globBak(fs', basename(last'.path))
       IN  /\ last'.err = ""
           /\ Cardinality(after) = Min(last'.keep, Cardinality(before))
           /\ after \subseteq before
           /\ \A s \in after, d \in before \ after :
                fs[s].mtime >= fs[d].mtime
           /\ fs' = Without(fs, before \ after)
           /\ (before = {} => fs' = fs)]_vars

\* C4 witness: after clean(f, 1) one matching artifact is left and another
\* one that a backup had made is gone.
C4_Witness ==
  /\ last.op = "clean"
  /\ last.keep = 1
  /\ Cardinality(globBak(fs, basename(last.path))) = 1
  /\ \E a \in DOMAIN made \ DOMAIN fs :
       Front(a.name, Len(basename(last.path))) = basename(last.path)

\* C5: backup of a path that does not exist fails with NotFound and changes
\* neither the files nor the log.
C5_BackupMissingSource ==
  [][(last'.op = "backup" /\ last'.path \notin DOMAIN fs) =>
       /\ last'.err = "NotFound"
       /\ fs' = fs
       /\ log' = log
       /\ logExists' = logExists
       /\ backupDirExists' = backupDirExists]_vars

\* C5 witness: a backup has failed with NotFound in a store that already
\* holds an artifact and a record.
C5_Witness ==
  /\ last.op = "backup"
  /\ last.err = "NotFound"
  /\ Len(log) > 0
  /\ Artifacts(fs) # {}

\* C6: restore of a backup path that does not exist fails with NotFound and
\* changes neither the files (the target included) nor the log.
C6_RestoreMissingBackup ==
  [][(last'.op = "restore" /\ last'.path \notin DOMAIN fs) =>
       /\ last'.err = "NotFound"
       /\ fs' = fs
       /\ log' = log
       /\ logExists' = logExists
       /\ backupDirExists' = backupDirExists]_vars

\* C6 witness: a restore of a missing backup has failed, its explicit target
\* does not exist, and the store holds a record.
C6_Witness ==
  /\ last.op = "restore"
  /\ last.err = "NotFound"
  /\ last.target # NoPath
  /\ last.target \notin DOMAIN fs
  /\ Len(log) > 0

\* C7: a list call changes neither the log nor any file, and what list
\* returns for a filter changes only by a backup or a restore: two list
\* calls with none in between return the same sequence.
C7_ListReadOnlyIdempotent ==
  [][/\ last'.op = "list" =>
          /\ fs' = fs
          /\ log' = log
          /\ logExists' = logExists
          /\ backupDirExists' = backupDirExists
     /\ (last.op = "list" /\ last'.op = "list" /\ last'.path = last.path)
          => last'.listing = last.listing
     /\ last'.op \notin {"backup", "restore"} =>
          \A f \in ListFilters :
            listBackupsResult(log', logExists', f)
              = listBackupsResult(log, logExists, f)]_vars

\* C7 witness: a list call with a path filter has returned records.
C7_Witness ==
  /\ last.op = "list"
  /\ last.path # NoPath
  /\ Len(last.listing) > 0

\* C8: list() without a filter returns the records of the operations in the
\* order they were performed, with non-decreasing timestamps.
C8_ListChronological ==
  (last.op = "list" /\ last.path = NoPath)
  => /\ last.listing = performed
     /\ NonDecreasing(last.listing)

\* C9 as stated: every record of the log is tagged backup or restore.
C9_TagsBackupOrRestore ==
  \A i \in DOMAIN log : parse(log[i]).operation \in {"backup", "restore"}

\* C9 as amended: every record of the log is tagged backup or rollback; the
\* record a backup writes is tagged backup, the one a restore writes rollback.
C9_TagsBackupOrRollback ==
  /\ \A i \in DOMAIN log : parse(log[i]).operation \in {"backup", "rollback"}
  /\ (last.op = "backup" /\ last.err = "")
       => parse(log[Len(log)]).operation = "backup"
  /\ (last.op = "restore" /\ last.err = "")
       => parse(log[Len(log)]).operation = "rollback"

\* C9 witness: a restore has written its record behind a backup record.
C9_Witness ==
  /\ last.op = "restore"
  /\ last.err = ""
  /\ \E i \in DOMAIN log : parse(log[i]).operation = "backup"

\* C10: a successful backup returns a path that no earlier backup returned
\* and creates a file that did not exist in the backup directory.
C10_BackupPathFresh ==
  [][(last'.op = "backup" /\ last'.err = "") =>
       /\ last'.ret \notin DOMAIN made
       /\ last'.ret \notin DOMAIN fs]_vars

\* C11: an artifact that exists keeps its bytes in every step of backup,
\* restore, list and clean; a step may only delete it.
C11_ArtifactsImmutable ==
  [][\A a \in Artifacts(fs) \cap Artifacts(fs') :
       fs'[a].content = fs[a].content]_vars

\* C12: when backup(f, {maxBackups: N}) with a supplied N >= 0 returns, at
\* most N artifacts match f's base name, none of them is older than a deleted
\* one, and for N >= 1 the returned path is one of them and holds f's content.
C12_BackupPrunesToN ==
  [][(last'.op = "backup" /\ last'.err = "" /\ last'.keep # NoMaxBackups) =>
       LET N      == last'.keep
           before == globBak(fs, basename(last'.path))
           after  == globBak(fs', basename(last'.path))
       IN  /\ Cardinality(after) <= N
           /\ \A s \in after, d \in before \ after :
                fs'[s].mtime >= fs[d].mtime
           /\ N >= 1 => /\ last'.ret \in after
                        /\ fs'[last'.ret].content = fs[last'.path].content]_vars

TsIndex(p) ==
  CHOOSE i \in DOMAIN TimestampStrings :
    TimestampStrings[i] = p.name[Len(p.name) - 1]

\* the artifacts made for the file typed as f that are gone
Pruned(f) == { d \in DOMAIN made \ DOMAIN fs : made[d].file = resolve(f) }

\* C13: when the command `backup <file>` without --max-backups has returned,
\* at most 10 artifacts match the file's base name and each of them is more
\* recent than every artifact of the file that is gone.
C13_DefaultRetention ==
  (cli.args.command = "backup" /\ cli.args.maxBackups = NoArg /\ cli.exit = 0)
  => LET family == globBak(fs, basename(cli.args.file))
     IN  /\ Cardinality(family) <= 10
         /\ last.ret \in family
         /\ \A s \in family, d \in Pruned(cli.args.file) :
              TsIndex(s) > TsIndex(d)

\* C13 witness: the eleventh backup command has returned; ten artifacts are
\* left and the first one is gone.
C13_Witness ==
  /\ cli.args.command = "backup"
  /\ cli.args.maxBackups = NoArg
  /\ cli.exit = 0
  /\ Cardinality(DOMAIN made) = 11
  /\ Cardinality(globBak(fs, basename(cli.args.file))) = 10
  /\ Cardinality(Pruned(cli.args.file)) = 1

\* C14: when the command `clean <file> <keep>` with a keep count >= 0 has
\* returned, at most keep artifacts match the file's base name (none for 0).
C14_CliCleanKeepsAtMost ==
  (cli.args.command = "clean" /\ cli.exit = 0 /\ cli.args.keep # NoArg)
  => Cardinality(globBak(fs, basename(cli.args.file))) <= cli.args.keep

\* C15: every record of the log has an absolute originalPath and an absolute
\* backupPath, and a successful restore returns an absolute path.
C15_AbsolutePaths ==
  /\ \A i \in DOMAIN log :
       /\ isAbsolute(parse(log[i]).originalPath)
       /\ isAbsolute(parse(log[i]).backupPath)
  /\ (last.op = "restore" /\ last.err = "") => isAbsolute(last.ret)

\* C16: list(p) returns, in log order, exactly the records whose originalPath
\* or backupPath denotes the absolute path p resolves to.
C16_ListByResolvedPath ==
  (last.op = "list" /\ last.path # NoPath)
  => last.listing =
       SelectSeq([i \in DOMAIN log |-> parse(log[i])],
                 LAMBDA r : \/ resolve(r.originalPath) = resolve(last.path)
                            \/ resolve(r.backupPath) = resolve(last.path))

\* the handler of the last command raised: a positional argument is missing
\* or the operation it called ended with an error
Raised == cli.args.file = NoPath \/ last.err # ""

\* C18: no arguments, -h and --help exit 0; backup, restore and clean exit 0
\* when they succeed and exit 1 after one Error: line when the handler raises;
\* an unknown subcommand exits 1 after one Error: line; list exits 0 and
\* prints No backups found. when no record of the log matches.
C18_ExitCodes ==
  /\ cli.args.command \in {"", "-h", "--help"} => cli.exit = 0
  /\ cli.args.command \in {"backup", "restore", "clean"} =>
       IF Raised
       THEN cli.exit = 1 /\ Len(cli.out) = 1 /\ cli.out[1][1] = "Error: "
       ELSE cli.exit = 0 /\ \A i \in DOMAIN cli.out : cli.out[i][1] # "Error: "
  /\ cli.args.command = "frobnicate" =>
       cli.exit = 1 /\ Len(cli.out) = 1 /\ cli.out[1][1] = "Error: "
  /\ cli.args.command = "list" =>
       /\ cli.exit = 0
       /\ listBackupsResult(log, logExists, cli.args.file) = <<>>
            => cli.out = <<<<"No backups found.">>>>

\* C18 witness: a restore command has failed on a backup that does not exist
\* after a backup command succeeded.
C18_Witness ==
  /\ cli.args.command = "restore"
  /\ cli.args.file = CliMissing
  /\ cli.exit = 1
  /\ log # <<>>

\* C19: a backup, restore or clean command that ends with an error leaves
\* the files, the backup directory and the log as they were before it.
C19_AllOrNothing ==
  [][(cli'.exit = 1 /\ cli'.args.command \in {"backup", "restore", "clean"}) =>
       /\ fs' = fs
       /\ backupDirExists' = backupDirExists
       /\ logExists' = logExists
       /\ log' = log]_vars

\* C20: make clean-backups with KEEP = 5 leaves, of the artifacts of each
\* file, the 5 most recently modified ones, or all of them when there are
\* fewer than 5.
C20_MakeKeepsFive ==
  [][last'.op = "make" =>
       \A base \in { DropLast(p.name, 2) : p \in Artifacts(fs) } :
         LET before == globBak(fs, base)
             after  == globBak(fs', base)
         IN  /\ Cardinality(after) = Min(5, Cardinality(before))
             /\ after \subseteq before
             /\ \A s \in after, d \in before \ after :
                  fs[s].mtime >= fs[d].mtime]_vars

\* the invocation p appends its record in this step
Appends(p) == procs[p].pc = "logWrite" /\ procs'[p].recorded

\* the artifacts the concurrent invocations have removed
Removed == UNION { procs[q].removed : q \in RaceProcs }

\* C21 as stated: a backup appends its record only after it has written the
\* artifact, the artifact exists at the moment the record is appended, also
\* while a clean runs, and a backup whose copy failed appends no record.
C21_ArtifactExistsAtAppend ==
  [][\A p \in Backups :
       /\ Appends(p) => /\ procs[p].copied
                        /\ procs[p].backupPath \in DOMAIN fs
       /\ procs'[p].err = "CopyFailed" => ~procs'[p].recorded]_vars

\* C21 as amended: a backup appends its record only after it has written the
\* artifact, and at that moment the artifact exists unless a concurrent clean
\* or prune has removed it; a backup whose copy failed appends no record.
C21_ArtifactWrittenBeforeAppend ==
  [][\A p \in Backups :
       /\ Appends(p) => /\ procs[p].copied
                        /\ procs[p].backupPath \in DOMAIN made
                        /\ \/ procs[p].backupPath \in DOMAIN fs
                           \/ procs[p].backupPath \in Removed
       /\ procs'[p].err = "CopyFailed" => ~procs'[p].recorded]_vars

\* C21 witness: a backup has appended its record while the clean is between
\* its listing and its removals, and the artifact is there.
C21_Witness ==
  \E p \in Backups :
    /\ procs[p].recorded
    /\ procs[p].backupPath \in DOMAIN fs
    /\ procs[Cleaner].pc = "rm"

\* the line a backup invocation writes for itself
LineOf(p) ==
  stringify(Record(now, procs[p].file, procs[p].backupPath, "backup", p))

\* C25: under every interleaving of the copies, the log reads and the log
\* writes of two concurrent backups, each backup's record is in the log once
\* it has appended it, and no step removes a line the log held before.
C25_ConcurrentAppendsKeepRecords ==
  [][/\ \A l \in Range(log) : l \in Range(log')
     /\ IsPrefix(log, log')
     /\ \A p \in Backups : procs'[p].recorded => LineOf(p)' \in Range(log')]_vars

\* C25 witness: both backups have read the same log content before either
\* wrote, and both have appended their record.
C25_Witness ==
  /\ \A p \in Backups : procs[p].recorded
  /\ procs["b1"].existing = procs["b2"].existing

\* C26: when a clean with keep >= 1 and a single concurrent backup of the
\* same file have both finished, the clean has removed only artifacts beyond
\* the keep most recent of its listing and the backup's artifact is there.
C26_NewArtifactSurvivesClean ==
  \A b \in Backups :
    ( /\ procs[Cleaner].pc = "done"
      /\ procs[Cleaner].err = ""
      /\ procs[Cleaner].keep >= 1
      /\ procs[b].pc = "done"
      /\ procs[b].recorded
      /\ procs[b].file = RaceFile
      /\ \A q \in Backups \ {b} : procs[q].pc = "idle" )
    => /\ procs[Cleaner].removed \subseteq
            Range(slice(procs[Cleaner].listed, procs[Cleaner].keep))
       /\ procs[b].backupPath \in DOMAIN fs

\* C22: restore(a) without a target, for an artifact a made by backup(f),
\* derives, writes and returns the originalPath of a's backup record, and
\* logs it as the destination.
C22_RestoresToRecordedPath ==
  (last.op = "restore" /\ last.err = "" /\ last.target = NoPath
     /\ last.path \in DOMAIN made)
  => /\ derivedTarget(last.path) = made[last.path].file
     /\ last.ret = made[last.path].file
     /\ performed[Len(performed)].originalPath = made[last.path].file

\* the step is a successful restore
Restores == last'.op = "restore" /\ last'.err = ""

\* C23: a successful restore changes no file but its destination, appends
\* exactly one line to the log, creates no artifact and leaves every artifact
\* present with the bytes it had.
C23_RestoreFrame ==
  [][Restores =>
       /\ \A p \in DOMAIN fs \ {resolve(last'.ret)} :
            p \in DOMAIN fs' /\ fs'[p] = fs[p]
       /\ DOMAIN fs' \subseteq DOMAIN fs \cup {resolve(last'.ret)}
       /\ Len(log') = Len(log) + 1
       /\ Artifacts(fs') = Artifacts(fs)
       /\ \A a \in Artifacts(fs) : fs'[a].content = fs[a].content]_vars

\* the step is a clean, or a backup with a retention count
Prunes ==
  \/ last'.op = "clean"
  \/ last'.op = "backup" /\ last'.err = "" /\ Truthy(last'.keep)

\* C24: clean(f, k) and the prune of backup(f, {maxBackups}) delete no
\* artifact that was made from a file other than f.
C24_PruneStaysInFamily ==
  [][Prunes =>
       \A a \in (DOMAIN fs \ DOMAIN fs') \cap DOMAIN made :
         made[a].file = resolve(last'.path)]_vars

\* the last event started helper i: a new child of it is open and it is
\* marked running; for the special entry, runAll started its first helper
\* and waits on its timer
StartedNow(i) ==
  IF helper(i).special
  THEN /\ [helper |-> 0, run |-> tui.started[0] + 1] \in tui'.children
       /\ Len(tui'.timers) = Len(tui.timers) + 1
  ELSE /\ [helper |-> i, run |-> tui.started[i] + 1] \in tui'.children
       /\ i \in tui'.running

\* C27: the selected index is always an index of the helper list; down/j
\* moves to the next entry and from the last to the first, up/k to the
\* previous entry and from the first to the last; a digit n in 1..7 selects
\* entry n - 1 and starts it.
C27_SelectionValid ==
  [][/\ tui.selected \in Indexes
     /\ tui'.selected \in Indexes
     /\ tui'.key \in {"j", "down"} =>
          tui'.selected = IF tui.selected = helpersLength - 1 THEN 0
                          ELSE tui.selected + 1
     /\ tui'.key \in {"k", "up"} =>
          tui'.selected = IF tui.selected = 0 THEN helpersLength - 1
                          ELSE tui.selected - 1
     /\ \A n \in 1..helpersLength :
          tui'.key = helper(n - 1).key =>
            tui'.selected = n - 1 /\ StartedNow(n - 1)]_vars

\* C27 witness: up/k has wrapped from the first entry to the last.
C27_Witness ==
  tui.alive /\ tui.key \in {"k", "up"} /\ tui.selected = helpersLength - 1

\* C28: a helper is marked running exactly while a child started for it has
\* not closed, and a result shown for a helper comes from its most recently
\* started run.
C28_RunningIffChildOpen ==
  tui.alive =>
    \A h \in Indexes :
      /\ h \in tui.running <=> \E c \in tui.children : c.helper = h
      /\ h \in DOMAIN tui.results => tui.resultRun[h] = tui.started[h]

\* C29: the status bar on the screen shows as Passed the number of helpers
\* whose result is ok and as Errors the number whose result is error.
C29_StatusBarCounts ==
  tui.alive =>
    /\ tui.bar.passed =
         Cardinality({ h \in DOMAIN tui.results : tui.results[h] = "ok" })
    /\ tui.bar.errors =
         Cardinality({ h \in DOMAIN tui.results : tui.results[h] = "error" })

\* a run ends in this step
Ends(run) == run \in web.runs /\ run \notin web'.runs

\* C30: at most one run of a helper is in flight, a helper is marked running
\* exactly while its run is in flight, also while check-all loops run; and
\* when a run ends, its helper is no longer marked running and has a result,
\* ok or error.
C30_OneRunPerHelper ==
  [][/\ \A id \in Range(appHelpers) :
          /\ Cardinality(InFlight(web', id)) <= 1
          /\ id \in web'.running <=> InFlight(web', id) # {}
     /\ \A run \in web.runs :
          Ends(run) => /\ run.helper \notin web'.running
                       /\ run.helper \in DOMAIN web'.results
                       /\ web'.results[run.helper] \in {"ok", "error"}]_vars

\* C30 witness: a check-all loop came to a helper that a click had started
\* and started nothing: the loop waits on its timer and the only run in
\* flight for that helper is the click's.
C30_Witness ==
  \E l \in web.loops :
    /\ l.phase = "timer"
    /\ InFlight(web, appHelpers[l.i]) # {}
    /\ \A r \in InFlight(web, appHelpers[l.i]) : r.owner = 0

====
